---- MODULE Spec2Model ----
(***************************************************************************)
(* photosort: src/src/main.rs.  The driver convert_files, the path planner *)
(* update_new_path / update_photo_new_path and the relocator move_photo,   *)
(* over a model of the file system (files with contents, directories).     *)
(* Strings are sequences of one-character strings, so that formatting,     *)
(* zero padding and std::path::Path's file_name / parent are computed.     *)
(* Option<T> is the empty tuple (None) or a one-element tuple (Some(x)).   *)
(***************************************************************************)
EXTENDS Integers, Sequences, FiniteSets, TLC

VARIABLES config, walk, fs_files, fs_dirs, file_list, photo_list, pc, idx,
          bar_len, bar_pos, log, planCalls, moveCalls, last

vars == <<config, walk, fs_files, fs_dirs, file_list, photo_list, pc, idx,
          bar_len, bar_pos, log, planCalls, moveCalls, last>>

\* Most files (or archive entries) one run finds.
MaxFiles == 2

---------------------------------------------------------------------------
\* Option<T>

None == <<>>
Some(x) == <<x>>
IsSome(o) == o # <<>>
Unwrap(o) == o[1]

---------------------------------------------------------------------------
\* Strings

SLASH == "/"

Digits == <<"0", "1", "2", "3", "4", "5", "6", "7", "8", "9">>

RECURSIVE DecNat(_)
\* Display of a non-negative integer: its decimal digits, no padding.
DecNat(n) == IF n < 10 THEN <<Digits[n + 1]>>
             ELSE DecNat(n \div 10) \o <<Digits[(n % 10) + 1]>>

\* format!("{}", i): i32 Display (date.year()).
FmtInt(n) == IF n < 0 THEN <<"-">> \o DecNat(0 - n) ELSE DecNat(n)

\* A plausible slip: "{}" where "{:02}" was meant.
FmtPad2NoPad(n) == DecNat(n)

\* format!("{:02}", u): u32 Display, zero-padded to a minimum width of 2.
FmtPad2(n) == IF Len(DecNat(n)) < 2 THEN <<"0">> \o DecNat(n) ELSE DecNat(n)

\* str::ends_with
EndsWith(s, suffix) ==
    /\ Len(s) >= Len(suffix)
    /\ SubSeq(s, Len(s) - Len(suffix) + 1, Len(s)) = suffix

RECURSIVE SplitOn(_, _)
\* The pieces of s between the occurrences of the character c (empty pieces kept).
SplitOn(s, c) ==
    IF \A i \in 1..Len(s) : s[i] # c THEN <<s>>
    ELSE LET k == CHOOSE i \in 1..Len(s) :
                      s[i] = c /\ \A j \in 1..(i - 1) : s[j] # c
         IN <<SubSeq(s, 1, k - 1)>> \o SplitOn(SubSeq(s, k + 1, Len(s)), c)

\* Path::components, as far as file_name and the file system need them: the
\* pieces between separators, repeated separators and "." pieces dropped.
Components(p) == SelectSeq(SplitOn(p, SLASH), LAMBDA c : c # <<>> /\ c # <<".">>)

IsAbsolute(p) == Len(p) > 0 /\ p[1] = SLASH

\* A plausible slip: nothing counts as a file name.
FileNameNever(p) == None

\* Path::file_name: the last component when it is a normal one; None for a
\* path that ends in "..", and for the root and the empty path.
FileName(p) ==
    LET cs == Components(p)
    IN IF cs = <<>> THEN None
       ELSE IF cs[Len(cs)] = <<".", ".">> THEN None
       ELSE Some(cs[Len(cs)])

RECURSIVE StripSlashes(_)
\* s without its trailing separators.
StripSlashes(s) == IF Len(s) > 0 /\ s[Len(s)] = SLASH
                   THEN StripSlashes(SubSeq(s, 1, Len(s) - 1)) ELSE s

RECURSIVE StripLast(_)
\* s without its trailing non-separator characters.
StripLast(s) == IF Len(s) > 0 /\ s[Len(s)] # SLASH
                THEN StripLast(SubSeq(s, 1, Len(s) - 1)) ELSE s

\* Path::parent: the path without its last component; None for the root and
\* the empty path.
Parent(p) ==
    LET body == StripSlashes(p)
    IN IF body = <<>> THEN None
       ELSE LET head == StripLast(body)
            IN IF StripSlashes(head) = <<>> /\ head # <<>>
               THEN Some(<<SLASH>>)
               ELSE Some(StripSlashes(head))

---------------------------------------------------------------------------
\* The file system: fs_files maps the key of each existing regular file to its
\* content, fs_dirs is the set of the keys of the existing directories.  A key
\* is a path up to repeated separators: "d//x" and "d/x" name the same file.

Key(p) == <<IsAbsolute(p), Components(p)>>

\* A key and the keys of all the directories above it.
Prefixes(k) == { <<k[1], SubSeq(k[2], 1, n)>> : n \in 0..Len(k[2]) }

ParentKey(k) == <<k[1], SubSeq(k[2], 1, Len(k[2]) - 1)>>

\* The content of a file that a copy onto itself has truncated: no bytes.
EmptyContent == <<>>

\* Path::exists: true of a directory and of a regular file.
PathExists(files, dirs, p) == Key(p) \in dirs \/ Key(p) \in DOMAIN files

\* std::fs::create_dir_all(p): fails when the system refuses (envOk false:
\* permissions, read-only volume) or a component of p is a regular file.
CreateDirAll(files, dirs, p, envOk) ==
    IF ~envOk \/ \E k \in Prefixes(Key(p)) : k \in DOMAIN files
    THEN [ok |-> FALSE, dirs |-> dirs]
    ELSE [ok |-> TRUE, dirs |-> dirs \cup Prefixes(Key(p))]

\* Whether the system call can start at all: the source is a regular file, the
\* destination is not a directory and its directory exists.
CanWrite(files, dirs, from, to) ==
    /\ Key(from) \in DOMAIN files
    /\ Key(to) \notin dirs
    /\ Len(Key(to)[2]) > 0
    /\ ParentKey(Key(to)) \in dirs

\* std::fs::rename(from, to), rename(2): the destination is replaced; when
\* both name the same file nothing is done and the call succeeds.  envOk false
\* is a refusal by the system (permissions, a cross-device move).
Rename(files, dirs, from, to, envOk) ==
    IF ~envOk \/ ~CanWrite(files, dirs, from, to)
    THEN [ok |-> FALSE, files |-> files]
    ELSE IF Key(from) = Key(to)
    THEN [ok |-> TRUE, files |-> files]
    ELSE [ok |-> TRUE,
          files |-> [k \in (DOMAIN files \ {Key(from)}) \cup {Key(to)} |->
                        IF k = Key(to) THEN files[Key(from)] ELSE files[k]]]

\* std::fs::copy(from, to): the source is opened, then the destination is
\* opened truncating it, then the bytes are copied; a copy of a file onto
\* itself therefore leaves it empty and succeeds.
Copy(files, dirs, from, to, envOk) ==
    IF ~envOk \/ ~CanWrite(files, dirs, from, to)
    THEN [ok |-> FALSE, files |-> files]
    ELSE IF Key(from) = Key(to)
    THEN [ok |-> TRUE, files |-> [files EXCEPT ![Key(from)] = EmptyContent]]
    ELSE [ok |-> TRUE,
          files |-> [k \in DOMAIN files \cup {Key(to)} |->
                        IF k = Key(to) THEN files[Key(from)] ELSE files[k]]]

---------------------------------------------------------------------------
\* photo::Photo: path, date and new_path are Options.

NewPhoto(path, date) == [path |-> Some(path), date |-> date, new_path |-> None]

\* update_photo_new_path ignoring the original name it is given.
NewNameIgnoringOriginal(file_name, original_name) == file_name

\* The name the destination ends with: the original name when one is given,
\* the source path's file name otherwise.
NewName(file_name, original_name) ==
    IF IsSome(original_name) THEN Unwrap(original_name) ELSE file_name

\* format!("{}/{}/{:02}/{:02}/{}", dest_dir, year, month, day, new_name)
FormatPath(dest_dir, date, new_name) ==
    dest_dir \o <<SLASH>> \o FmtInt(date[1]) \o <<SLASH>> \o FmtPad2(date[2])
             \o <<SLASH>> \o FmtPad2(date[3]) \o <<SLASH>> \o new_name

\* update_photo_new_path(dest_dir, photo, original_name): the photo with its
\* destination set, or panic when photo.path() or photo.date() is None.  A
\* path without a file name is only logged and the photo is left as it was.
UpdatePhotoNewPath(dest_dir, photo, original_name) ==
    IF ~IsSome(photo.path) THEN [panic |-> TRUE, photo |-> photo]
    ELSE LET file_name == FileName(Unwrap(photo.path))
         IN IF ~IsSome(file_name) THEN [panic |-> FALSE, photo |-> photo]
            ELSE IF ~IsSome(photo.date) THEN [panic |-> TRUE, photo |-> photo]
            ELSE [panic |-> FALSE,
                  photo |-> [photo EXCEPT !.new_path =
                      Some(FormatPath(dest_dir, Unwrap(photo.date),
                                      NewName(Unwrap(file_name), original_name)))]]

\* What a call of move_photo that panics at its first line leaves behind.
Panicked(files, dirs) ==
    [panic |-> TRUE, ok |-> FALSE, op |-> "none", op_ok |-> FALSE,
     files |-> files, dirs |-> dirs]

\* A move_photo that unwraps the directory's Result instead of returning it.
ErrReturnPanics(files, dirs) == Panicked(files, dirs)

\* return Err(...): no parent directory, or create_dir_all failed.
ErrReturn(files, dirs) ==
    [panic |-> FALSE, ok |-> FALSE, op |-> "none", op_ok |-> FALSE,
     files |-> files, dirs |-> dirs]

\* move_photo(photo, move_file, dry_run) on the file system (files, dirs);
\* envDir and envOp say whether the system lets create_dir_all and the
\* rename or copy through.  ok is the Result (Ok or Err), op the system call
\* made on the file and op_ok whether that call succeeded.
MovePhoto(photo, move_file, dry_run, files, dirs, envDir, envOp) ==
    IF ~IsSome(photo.new_path) THEN Panicked(files, dirs)
    ELSE
    LET new_path == Unwrap(photo.new_path)
        dir == Parent(new_path)
        made == IF PathExists(files, dirs, Unwrap(dir))
                THEN [ok |-> TRUE, dirs |-> dirs]
                ELSE CreateDirAll(files, dirs, Unwrap(dir), envDir)
    IN IF ~IsSome(dir) \/ ~made.ok
       THEN ErrReturn(files, dirs)
       ELSE IF dry_run
       THEN [panic |-> FALSE, ok |-> TRUE, op |-> "none", op_ok |-> FALSE,
             files |-> files, dirs |-> made.dirs]
       ELSE IF ~IsSome(photo.path) THEN Panicked(files, made.dirs)
       ELSE LET done == IF move_file
                        THEN Rename(files, made.dirs, Unwrap(photo.path), new_path, envOp)
                        ELSE Copy(files, made.dirs, Unwrap(photo.path), new_path, envOp)
            IN [panic |-> FALSE, ok |-> TRUE,
                op |-> IF move_file THEN "rename" ELSE "copy",
                op_ok |-> done.ok, files |-> done.files, dirs |-> made.dirs]

---------------------------------------------------------------------------
\* The run's inputs

\* Text constants of the runs explored.
DirO == <<"/", "o">>
DirD == <<"d", "/">>
ZipZ == <<"z", ".", "z", "i", "p">>
DotZip == <<".", "z", "i", "p">>
NameA == <<"a", ".", "j">>
NameB == <<"b">>
SubT == <<"t">>
SubDated == <<"2", "0", "2", "3", "/", "0", "5", "/", "0", "4">>
TmpPrefix == <<"/", "t", "/", "x">>

Sources == {DirO, ZipZ}
Destinations == {DirO, DirD}

\* Option<(year, month, day)> of a file's metadata.
DateOptions == {None, Some(<<2023, 5, 4>>), Some(<<2021, 12, 31>>)}

\* Where a file lies below the source (or inside the archive) and its name,
\* in the order a walk meets them.
Places == <<[dir |-> <<>>, name |-> NameA], [dir |-> SubT, name |-> NameA],
            [dir |-> SubDated, name |-> NameA], [dir |-> <<>>, name |-> NameB]>>

RelPath(place) == IF place.dir = <<>> THEN place.name
                  ELSE place.dir \o <<SLASH>> \o place.name

\* What a walk of the source directory (or a pass over the archive) finds: at
\* most MaxFiles of the places, each with the date of the file there.
Walks ==
    UNION { { w \in [1..n -> [at : 1..Len(Places), date : DateOptions]] :
                \A i, j \in 1..n : i < j => w[i].at < w[j].at }
            : n \in 0..MaxFiles }

PlaceOf(w, i) == Places[w[i].at]

Configs == [source : Sources, destination : Destinations,
            copy : BOOLEAN, dry_run : BOOLEAN]

IsZip(cfg) == EndsWith(cfg.source, DotZip)

\* The path of the i-th file found: below the source directory, or the
\* temporary file the i-th archive entry is extracted to.
FilePath(cfg, w, i) == cfg.source \o <<SLASH>> \o RelPath(PlaceOf(w, i))
TempPath(i) == TmpPrefix \o DecNat(i)

\* The content of the i-th file found.
Content(i) == <<i>>

NoCall == [called |-> FALSE]

\* The files the run finds on disk: those of the walk, each with its content
\* (an archive's entries are not files until they are extracted).
InitialFiles ==
    IF IsZip(config) THEN <<>>
    ELSE [k \in {Key(FilePath(config, walk, i)) : i \in 1..Len(walk)} |->
            Content(CHOOSE i \in 1..Len(walk) : Key(FilePath(config, walk, i)) = k)]

\* The directories the run finds: the root, the working directory, the
\* source directory and those the files lie in, or the temporary directory.
InitialDirs ==
    {<<TRUE, <<>> >>, <<FALSE, <<>> >>}
    \cup (IF IsZip(config) THEN Prefixes(ParentKey(Key(TempPath(1))))
          ELSE Prefixes(Key(config.source))
               \cup UNION {Prefixes(ParentKey(Key(FilePath(config, walk, i))))
                           : i \in 1..Len(walk)})

Init ==
    /\ config \in Configs
    /\ walk \in Walks
    /\ fs_files = InitialFiles
    /\ fs_dirs = InitialDirs
    /\ file_list = <<>>
    /\ photo_list = <<>>
    /\ pc = "start"
    /\ idx = 1
    /\ bar_len = 0
    /\ bar_pos = 0
    /\ log = <<>>
    /\ planCalls = <<>>
    /\ moveCalls = <<>>
    /\ last = NoCall

---------------------------------------------------------------------------
\* convert_files

\* The branch on the source's extension.
ConvertFilesStart ==
    /\ pc = "start"
    /\ pc' = IF EndsWith(config.source, DotZip) THEN "zip" ELSE "discovering"
    /\ UNCHANGED <<config, walk, fs_files, fs_dirs, file_list, photo_list, idx,
                   bar_len, bar_pos, log, planCalls, moveCalls, last>>

\* discovery::list_all_files: the walk of the source directory, one regular
\* file a step, in the order the file system gives them.
ListAllFiles ==
    /\ pc = "discovering"
    /\ IF idx <= Len(walk)
       THEN /\ file_list' = Append(file_list, FilePath(config, walk, idx))
            /\ idx' = idx + 1
            /\ pc' = pc
       ELSE /\ pc' = "processing"
            /\ idx' = 1
            /\ file_list' = file_list
    /\ UNCHANGED <<config, walk, fs_files, fs_dirs, photo_list,
                   bar_len, bar_pos, log, planCalls, moveCalls, last>>

\* The date the metadata of the file at path holds.
MetaDate(path) ==
    LET i == CHOOSE j \in 1..Len(walk) : FilePath(config, walk, j) = path
    IN walk[i].date

\* discovery::process_raw_files: a Photo for each file that has a date; a
\* file without one is reported and left out.
ProcessRawFiles ==
    /\ pc = "processing"
    /\ IF idx <= Len(file_list)
       THEN /\ IF IsSome(MetaDate(file_list[idx]))
               THEN /\ photo_list' = Append(photo_list,
                           NewPhoto(file_list[idx], MetaDate(file_list[idx])))
                    /\ log' = log
               ELSE /\ photo_list' = photo_list
                    /\ log' = Append(log, [kind |-> "skipped", path |-> file_list[idx]])
            /\ idx' = idx + 1
            /\ pc' = pc
       ELSE /\ pc' = "planning"
            /\ idx' = 1
            /\ UNCHANGED <<photo_list, log>>
    /\ UNCHANGED <<config, walk, fs_files, fs_dirs, file_list,
                   bar_len, bar_pos, planCalls, moveCalls, last>>

\* A planner that stops after its first photo.
UpdateNewPathDoneEarly(i, photos) == i > 1 \/ i > Len(photos)

\* The end of update_new_path's loop: every photo of the list has been through.
UpdateNewPathDone(i, photos) == i > Len(photos)

\* update_new_path: update_photo_new_path on each photo of the list in turn,
\* without an original name; then the progress bar is sized to file_list.
UpdateNewPath ==
    /\ pc = "planning"
    /\ IF ~UpdateNewPathDone(idx, photo_list)
       THEN LET r == UpdatePhotoNewPath(config.destination, photo_list[idx], None)
            IN /\ photo_list' = [photo_list EXCEPT ![idx] = r.photo]
               /\ planCalls' = Append(planCalls, photo_list[idx].path)
               /\ pc' = IF r.panic THEN "panicked" ELSE pc
               /\ idx' = idx + 1
               /\ bar_len' = bar_len
       ELSE /\ pc' = "relocating"
            /\ idx' = 1
            /\ bar_len' = Len(file_list)
            /\ UNCHANGED <<photo_list, planCalls>>
    /\ UNCHANGED <<config, walk, fs_files, fs_dirs, file_list,
                   bar_pos, log, moveCalls, last>>

\* A driver that gives up at the first Err.
NextIndexStopOnErr(i, ok, n) == IF ok THEN i + 1 ELSE n + 1

\* The for loop over photo_list: after the i-th of n items comes the next,
\* whatever move_photo returned.
NextIndex(i, ok, n) == i + 1

\* The match on move_photo's Result: info!("Moved photo ...") for Ok,
\* warn!("Failed to move photo ...") for Err.
Outcome(ok) == IF ok THEN "moved" ELSE "failed"

\* The move_file argument: !config.copy.
MoveFile(cfg) == ~cfg.copy

\* A driver that walks the discovered files, not the photos kept of them.
RelocationListAllFiles ==
    [i \in 1..Len(file_list) |->
        IF \E k \in 1..Len(photo_list) : photo_list[k].path = Some(file_list[i])
        THEN photo_list[CHOOSE k \in 1..Len(photo_list) :
                            photo_list[k].path = Some(file_list[i])]
        ELSE NewPhoto(file_list[i], None)]

\* The list the relocation loop walks: for photo in photo_list.
RelocationList == photo_list

\* What is remembered of the latest call of move_photo, until a later step
\* changes the file system: its arguments, its result and the file system
\* before it.
CallRecord(photo, move_file, dry_run, r) ==
    [called |-> TRUE, photo |-> photo, move_file |-> move_file, dry_run |-> dry_run,
     panic |-> r.panic, ok |-> r.ok, op |-> r.op, op_ok |-> r.op_ok,
     pre_files |-> fs_files, pre_dirs |-> fs_dirs]

\* One turn of the loop: bar.inc(1), move_photo, the log line; bar.finish()
\* once the list is through.
RelocateLoop ==
    /\ pc = "relocating"
    /\ IF idx <= Len(RelocationList)
       THEN \E dirFails, opFails \in BOOLEAN :
            LET photo == RelocationList[idx]
                r == MovePhoto(photo, MoveFile(config), config.dry_run,
                               fs_files, fs_dirs, ~dirFails, ~opFails)
            IN /\ bar_pos' = bar_pos + 1
               /\ moveCalls' = Append(moveCalls, photo.path)
               /\ last' = CallRecord(photo, MoveFile(config), config.dry_run, r)
               /\ fs_files' = r.files
               /\ fs_dirs' = r.dirs
               /\ IF r.panic
                  THEN /\ pc' = "panicked"
                       /\ UNCHANGED <<log, idx>>
                  ELSE /\ log' = Append(log, [kind |-> Outcome(r.ok),
                                              path |-> Unwrap(photo.path)])
                       /\ idx' = NextIndex(idx, r.ok, Len(RelocationList))
                       /\ pc' = pc
       ELSE /\ pc' = "finished"
            /\ UNCHANGED <<fs_files, fs_dirs, idx, bar_pos, log, moveCalls, last>>
    /\ UNCHANGED <<config, walk, file_list, photo_list, bar_len, planCalls>>

\* zipfiles::process_zip_file: each entry is extracted to a temporary file;
\* an entry with a date is planned under the entry's own file name (the
\* directories inside the archive dropped) and relocated at once, one
\* without a date is reported and left out.
ProcessZipFile ==
    /\ pc = "zip"
    /\ IF idx <= Len(walk)
       THEN \E dirFails, opFails \in BOOLEAN :
            LET tmp == TempPath(idx)
                files1 == [k \in DOMAIN fs_files \cup {Key(tmp)} |->
                              IF k = Key(tmp) THEN Content(idx) ELSE fs_files[k]]
                planned == UpdatePhotoNewPath(config.destination,
                               NewPhoto(tmp, walk[idx].date),
                               Some(PlaceOf(walk, idx).name))
                r == MovePhoto(planned.photo, MoveFile(config), config.dry_run,
                               files1, fs_dirs, ~dirFails, ~opFails)
            IN IF ~IsSome(walk[idx].date)
               THEN /\ fs_files' = files1
                    /\ log' = Append(log, [kind |-> "skipped", path |-> tmp])
                    /\ idx' = idx + 1
                    /\ pc' = pc
                    /\ last' = NoCall
                    /\ UNCHANGED <<fs_dirs, photo_list, planCalls, moveCalls>>
               ELSE /\ photo_list' = Append(photo_list, planned.photo)
                    /\ planCalls' = Append(planCalls, Some(tmp))
                    /\ moveCalls' = Append(moveCalls, Some(tmp))
                    /\ last' = [CallRecord(planned.photo, MoveFile(config),
                                           config.dry_run, r)
                                  EXCEPT !.pre_files = files1]
                    /\ fs_files' = r.files
                    /\ fs_dirs' = r.dirs
                    /\ IF planned.panic \/ r.panic
                       THEN /\ pc' = "panicked"
                            /\ UNCHANGED <<log, idx>>
                       ELSE /\ log' = Append(log, [kind |-> Outcome(r.ok), path |-> tmp])
                            /\ idx' = NextIndex(idx, r.ok, Len(walk))
                            /\ pc' = pc
       ELSE /\ pc' = "finished"
            /\ UNCHANGED <<fs_files, fs_dirs, photo_list, idx, log,
                           planCalls, moveCalls, last>>
    /\ UNCHANGED <<config, walk, file_list, bar_len, bar_pos>>

Next ==
    \/ ConvertFilesStart
    \/ ListAllFiles
    \/ ProcessRawFiles
    \/ UpdateNewPath
    \/ RelocateLoop
    \/ ProcessZipFile

Spec == Init /\ [][Next]_vars

---------------------------------------------------------------------------
\* Vocabulary of the properties

\* The path the i-th candidate is read from.
SrcPath(i) == IF IsZip(config) THEN TempPath(i) ELSE FilePath(config, walk, i)

\* The candidate a photo was made of.
SourceOf(photo) == CHOOSE i \in 1..Len(walk) : photo.path = Some(SrcPath(i))

DigitValue(c) == (CHOOSE d \in 1..10 : Digits[d] = c) - 1

IsDigits(s) == Len(s) > 0 /\ \A i \in 1..Len(s) : \E d \in 1..10 : Digits[d] = s[i]

RECURSIVE ParseNat(_)
\* The number a string of decimal digits denotes.
ParseNat(s) == IF s = <<>> THEN 0
               ELSE 10 * ParseNat(SubSeq(s, 1, Len(s) - 1)) + DigitValue(s[Len(s)])

\* The pieces of path p below root: what follows root, cut at the separators.
Below(root, p) == SplitOn(SubSeq(p, Len(root) + 1, Len(p)), SLASH)

\* p is root/Y/MM/DD/name for the date (Y, M, D): the year in plain decimal,
\* month and day in exactly two digits.
IsDatedPath(p, root, date, name) ==
    /\ Len(p) > Len(root)
    /\ SubSeq(p, 1, Len(root)) = root
    /\ LET parts == Below(root, p)
       IN /\ Len(parts) = 5
          /\ parts[1] = <<>>
          /\ IsDigits(parts[2]) /\ ParseNat(parts[2]) = date[1]
          /\ (Len(parts[2]) > 1 => parts[2][1] # "0")
          /\ Len(parts[3]) = 2 /\ IsDigits(parts[3]) /\ ParseNat(parts[3]) = date[2]
          /\ Len(parts[4]) = 2 /\ IsDigits(parts[4]) /\ ParseNat(parts[4]) = date[3]
          /\ parts[5] = name

\* The photos path planning has been through.
PlannedPhotos == 1..Len(planCalls)

\* The range of a sequence.
Range(q) == {q[i] : i \in 1..Len(q)}

\* How many outcomes of a kind the log holds.
CountKind(kind) == Cardinality({k \in 1..Len(log) : log[k].kind = kind})

---------------------------------------------------------------------------
\* C1: every photo path planning has been through, made of a candidate with
\* capture date (Y, M, D) and display name N, has the destination
\* root/Y/MM/DD/N, month and day in two digits; two photos with the same date
\* and name have the same destination, wherever their sources lie.
C1_PlannedDestination ==
    /\ \A k \in PlannedPhotos :
         /\ IsSome(photo_list[k].new_path)
         /\ IsDatedPath(Unwrap(photo_list[k].new_path), config.destination,
                        Unwrap(walk[SourceOf(photo_list[k])].date),
                        PlaceOf(walk, SourceOf(photo_list[k])).name)
    /\ \A k1, k2 \in PlannedPhotos :
         (/\ walk[SourceOf(photo_list[k1])].date = walk[SourceOf(photo_list[k2])].date
          /\ PlaceOf(walk, SourceOf(photo_list[k1])).name
               = PlaceOf(walk, SourceOf(photo_list[k2])).name)
         => photo_list[k1].new_path = photo_list[k2].new_path

\* Two photos of the same date and name from different directories have been
\* planned, the month and the day below ten.
C1_Witness ==
    /\ pc = "finished"
    /\ \E k1, k2 \in PlannedPhotos :
         /\ k1 # k2
         /\ photo_list[k1].path # photo_list[k2].path
         /\ photo_list[k1].date = Some(<<2023, 5, 4>>)
         /\ photo_list[k2].date = Some(<<2023, 5, 4>>)
         /\ photo_list[k1].new_path = photo_list[k2].new_path

C3_DryRunTouchesNothing ==
    (~IsZip(config) /\ last.called /\ last.dry_run) =>
        /\ fs_files = last.pre_files
        /\ fs_dirs = last.pre_dirs
        /\ last.ok

\* What a dry run does leave alone: the files.
C3_DryRunKeepsFiles ==
    (last.called /\ last.dry_run) => fs_files = last.pre_files

\* The call before this state was no dry run and its rename or copy succeeded.
Relocated == last.called /\ ~last.dry_run /\ last.op # "none" /\ last.op_ok

\* Moved: the source is gone and the destination holds its content.
MoveEffect(src, dst) ==
    /\ src \notin DOMAIN fs_files
    /\ dst \in DOMAIN fs_files
    /\ fs_files[dst] = last.pre_files[src]

\* Copied: the source is there unchanged and the destination equals it.
CopyEffect(src, dst) ==
    /\ src \in DOMAIN fs_files
    /\ fs_files[src] = last.pre_files[src]
    /\ dst \in DOMAIN fs_files
    /\ fs_files[dst] = fs_files[src]

\* The whole of C4, for both modes.
MoveCopyEffect ==
    Relocated =>
        /\ (last.op = "rename") = ~config.copy
        /\ IF last.op = "rename"
           THEN MoveEffect(Key(Unwrap(last.photo.path)), Key(Unwrap(last.photo.new_path)))
           ELSE CopyEffect(Key(Unwrap(last.photo.path)), Key(Unwrap(last.photo.new_path)))

\* C4: after a call that is no dry run and whose rename or copy succeeded:
\* moved, the source is gone and the destination holds its content; copied,
\* the source is there unchanged and the destination equals it; and it is a
\* move exactly when the copy flag is off.  Stated of the directory driver's
\* calls with the copy flag on, where the second half is what must hold.
C4_CopyKeepsSource ==
    (~IsZip(config) /\ config.copy) => MoveCopyEffect

\* The same for both modes, the source and the destination two different files.
C4_DistinctPaths ==
    (Relocated /\ Key(Unwrap(last.photo.path)) # Key(Unwrap(last.photo.new_path)))
    => MoveCopyEffect

\* C5: when the rename or copy of a call fails, move_photo returns Err and
\* the driver logs the failure, not "Moved photo".
C5_FailureIsReported ==
    (~IsZip(config) /\ last.called /\ last.op # "none" /\ ~last.op_ok) =>
        /\ ~last.ok
        /\ log[Len(log)].kind = "failed"

\* C6: the loop never aborts: while it runs, every earlier item has been
\* handed to move_photo whatever the earlier calls returned, and at
\* bar.finish() every planned item has been attempted once, in order.
C6_PerItemIsolation ==
    /\ pc # "panicked"
    /\ (pc = "relocating" /\ idx <= Len(photo_list) + 1) => Len(moveCalls) = idx - 1
    /\ pc = "relocating" => idx <= Len(photo_list) + 1
    /\ pc = "finished" =>
         /\ Len(moveCalls) = Len(photo_list)
         /\ \A k \in 1..Len(photo_list) : moveCalls[k] = photo_list[k].path

\* The run is over, an item failed and the item after it was attempted.
C6_Witness ==
    /\ pc = "finished"
    /\ ~IsZip(config)
    /\ \E k \in 1..(Len(log) - 1) :
         /\ log[k].kind = "failed"
         /\ log[k + 1].kind \in {"moved", "failed"}
         /\ Some(log[k + 1].path) \in Range(moveCalls)

Rank(p) == CASE p = "start" -> 0
             [] p = "discovering" -> 1
             [] p = "processing" -> 2
             [] p = "planning" -> 3
             [] p = "relocating" -> 4
             [] p = "zip" -> 4
             [] OTHER -> 5

\* Discovery is through before the first photo is planned, planning is
\* through before the first relocation, the file system is untouched until
\* then, and nothing is planned or relocated twice.
PhaseOrder ==
    ~IsZip(config) =>
        /\ (pc \in {"start", "discovering"}) => photo_list = <<>>
        /\ planCalls # <<>> =>
             /\ Len(file_list) = Len(walk)
             /\ pc \in {"planning", "relocating", "finished"}
        /\ moveCalls # <<>> =>
             /\ Len(planCalls) = Len(photo_list)
             /\ \A k \in 1..Len(photo_list) : IsSome(photo_list[k].new_path)
             /\ pc \in {"relocating", "finished"}
        /\ moveCalls = <<>> =>
             /\ fs_files = InitialFiles
        /\ \A a, b \in 1..Len(planCalls) : a # b => planCalls[a] # planCalls[b]
        /\ \A a, b \in 1..Len(moveCalls) : a # b => moveCalls[a] # moveCalls[b]

\* C9: a run over a directory goes through discovering, planning and
\* relocating in that order and never back; discovery is drained before any
\* photo is planned and every photo is planned before the first relocation;
\* nothing is planned or relocated twice.
C9_Phases == []PhaseOrder /\ [][Rank(pc) <= Rank(pc')]_vars

\* Two photos have been planned and the first of them relocated.
C9_Witness ==
    /\ ~IsZip(config)
    /\ pc = "relocating"
    /\ Len(planCalls) = 2
    /\ Len(moveCalls) = 1

====
